---- MODULE Spec2Model ----
(***************************************************************************)
(* The tool-calling orchestration loop of integrations/channels/main.py    *)
(* (process_llm_with_tools), with the Completion Endpoint and the tools of  *)
(* function_map as its environment.                                        *)
(***************************************************************************)
EXTENDS Integers, Sequences, FiniteSets, TLC

VARIABLES
    pc,                     \* position of the run inside process_llm_with_tools
    max_iterations,         \* argument max_iterations
    conversation_history,   \* the caller's list (argument conversation_history)
    history_given,          \* FALSE when conversation_history is None
    input_list,             \* the working transcript
    iteration,              \* loop counter
    responses,              \* every response the endpoint returned, oldest first
    idx,                    \* position of the dispatch loop in response.output
    has_function_calls,     \* flag of the dispatch loop
    requests,               \* every client.responses.create call made, oldest first
    invocations,            \* every tool invocation made, oldest first
    result,                 \* the returned dict, <<>> until the run returns
    raised,                 \* the exception that left the run, "" if none
    sdk_output_text,        \* whether Response objects have an output_text attribute
    module_globals,         \* the module's globals tools and function_map
    service_cache,          \* _service_cache: service type -> service object
    ppc,                    \* position of the process inside a wrapper or get_cached_service
    op,                     \* the wrapper or get_cached_service call in progress (or just over)
    op_result,              \* how that call ended and with what value
    ncalls,                 \* number of such calls begun in the process
    auth_runs,              \* per authentication routine, how often it was entered
    auth_failures,          \* per authentication routine, how often it raised
    token_file,             \* token_gmail.json
    creds,                  \* local variable creds of gmail.get_service
    trace                   \* what the current run of gmail.get_service has done so far

\* The state of the process outside a run of process_llm_with_tools.
process_vars == <<service_cache, ppc, op, op_result, ncalls, auth_runs, auth_failures,
                  token_file, creds, trace>>

\* The state of a run of process_llm_with_tools.
run_vars == <<pc, max_iterations, conversation_history, history_given, input_list,
              iteration, responses, idx, has_function_calls, requests, invocations,
              result, raised, sdk_output_text>>

vars == <<run_vars, module_globals, process_vars>>

(***************************************************************************)
(* Bounds of the model.                                                    *)
(***************************************************************************)
MaxIter == 2    \* largest max_iterations a run is started with
MaxItems == 2   \* most output items in one endpoint response
MaxCalls == 2   \* most wrapper and get_cached_service calls in one process

Last(s) == s[Len(s)]

SeqsUpTo(S, n) == UNION {[1..k -> S] : k \in 0..n}

(***************************************************************************)
(* Python values that an item's arguments attribute can hold.              *)
(***************************************************************************)
PyStr(s) == [str |-> s]
PyDict(d) == [dict |-> d]
PyList(l) == [list |-> l]

IsStr(v) == DOMAIN v = {"str"}
IsDict(v) == DOMAIN v = {"dict"}

(***************************************************************************)
(* Constants of main.py.                                                   *)
(***************************************************************************)
model == "gpt-5"

instructions == "You are a helpful assistant"

user_message == "List my recent emails"

valid_input_fields == {"role", "content", "type", "call_id", "output", "name", "arguments"}

\* function_map: the registered names, each with the keyword parameters its
\* wrapper accepts and those without a default.
function_map ==
    [gmail_list_messages |-> [params |-> {"max_results", "query"}, required |-> {}],
     gmail_get_message |-> [params |-> {"message_id"}, required |-> {"message_id"}],
     gmail_send_email |-> [params |-> {"to", "subject", "body", "is_html"},
                           required |-> {"to", "subject", "body"}],
     gmail_mark_as_read |-> [params |-> {"message_id"}, required |-> {"message_id"}],
     gmail_delete_message |-> [params |-> {"message_id"}, required |-> {"message_id"}],
     calendar_list_events |-> [params |-> {"max_results"}, required |-> {}],
     calendar_create_event |-> [params |-> {"summary", "start_time", "end_time", "description"},
                                required |-> {"summary", "start_time", "end_time"}],
     calendar_delete_event |-> [params |-> {"event_id"}, required |-> {"event_id"}],
     docs_create_document |-> [params |-> {"title"}, required |-> {}],
     docs_get_document |-> [params |-> {"document_id"}, required |-> {"document_id"}],
     docs_insert_text |-> [params |-> {"document_id", "text", "index"},
                           required |-> {"document_id", "text"}],
     docs_list_documents |-> [params |-> {"max_results"}, required |-> {}],
     drive_list_files |-> [params |-> {"page_size", "query"}, required |-> {}],
     drive_get_file |-> [params |-> {"file_id"}, required |-> {"file_id"}],
     drive_create_folder |-> [params |-> {"name"}, required |-> {"name"}],
     drive_search_files |-> [params |-> {"query", "page_size"}, required |-> {"query"}],
     meet_create_meeting |-> [params |-> {"summary", "start_time", "end_time", "attendees", "description"},
                              required |-> {"summary", "start_time", "end_time"}],
     meet_create_meeting_now |-> [params |-> {"summary", "duration_minutes", "attendees", "description"},
                                  required |-> {"summary"}],
     meet_list_meetings |-> [params |-> {"max_results"}, required |-> {}],
     meet_get_meeting |-> [params |-> {"event_id"}, required |-> {"event_id"}],
     sheets_create_spreadsheet |-> [params |-> {"title"}, required |-> {}],
     sheets_read_range |-> [params |-> {"spreadsheet_id", "range_name"},
                            required |-> {"spreadsheet_id", "range_name"}],
     sheets_write_range |-> [params |-> {"spreadsheet_id", "range_name", "values"},
                             required |-> {"spreadsheet_id", "range_name", "values"}],
     sheets_append_row |-> [params |-> {"spreadsheet_id", "range_name", "values"},
                            required |-> {"spreadsheet_id", "range_name", "values"}]]

\* function_name in function_map
Registered(function_name) == function_name \in DOMAIN module_globals.function_map

(***************************************************************************)
(* json.loads and json.dumps on the texts the model uses.                  *)
(***************************************************************************)
json_loads(s) ==
    CASE s = "{\"max_results\": 5}" -> [ok |-> TRUE, value |-> PyDict([max_results |-> 5])]
      [] s = "{\"limit\": 5}" -> [ok |-> TRUE, value |-> PyDict([limit |-> 5])]
      [] s = "[5]" -> [ok |-> TRUE, value |-> PyList(<<5>>)]
      [] s = "{\"max_results\": " ->
            [ok |-> FALSE, error |-> "Expecting value: line 1 column 17 (char 16)"]
      [] OTHER -> [ok |-> FALSE, error |-> "Expecting value: line 1 column 1 (char 0)"]

\* json.dumps({"error": message}, indent=2)
json_dumps_error(message) == "{\n  \"error\": \"" \o message \o "\"\n}"

(***************************************************************************)
(* Output items of an endpoint response.  An item is an object with        *)
(* attributes (attrs); dumpable says whether it has a model_dump method,   *)
(* which returns all its attributes as a dictionary.                       *)
(***************************************************************************)
Shapes == {"message", "reasoning", "call_str", "call_dict", "call_malformed",
           "call_list", "call_badkw", "call_unknown", "call_plain"}

FunctionCallItem(dumpable, call_id, name, arguments) ==
    [dumpable |-> dumpable,
     attrs |-> [type |-> "function_call", id |-> "fc", status |-> "completed",
                call_id |-> call_id, name |-> name, arguments |-> arguments]]

\* The item of a shape; call_id is the fresh id the endpoint gives a function call.
ItemObject(shape, call_id) ==
    CASE shape = "message" ->
            [dumpable |-> TRUE,
             attrs |-> [type |-> "message", id |-> "msg", status |-> "completed",
                        role |-> "assistant", content |-> "Here are your emails."]]
      [] shape = "reasoning" ->
            [dumpable |-> TRUE,
             attrs |-> [type |-> "reasoning", id |-> "rs", summary |-> "thinking"]]
      [] shape = "call_str" ->
            FunctionCallItem(TRUE, call_id, "gmail_list_messages", PyStr("{\"max_results\": 5}"))
      [] shape = "call_dict" ->
            FunctionCallItem(TRUE, call_id, "gmail_list_messages", PyDict([max_results |-> 5]))
      [] shape = "call_malformed" ->
            FunctionCallItem(TRUE, call_id, "gmail_list_messages", PyStr("{\"max_results\": "))
      [] shape = "call_list" ->
            FunctionCallItem(TRUE, call_id, "gmail_list_messages", PyStr("[5]"))
      [] shape = "call_badkw" ->
            FunctionCallItem(TRUE, call_id, "docs_list_documents", PyStr("{\"limit\": 5}"))
      [] shape = "call_unknown" ->
            FunctionCallItem(TRUE, call_id, "web_lookup", PyStr("{\"max_results\": 5}"))
      [] shape = "call_plain" ->
            FunctionCallItem(FALSE, call_id, "docs_list_documents", PyStr("{\"max_results\": 5}"))

HasAttr(item, a) == a \in DOMAIN item.attrs

\* hasattr(item, 'type') and item.type == t
IsType(item, t) == HasAttr(item, "type") /\ item.attrs.type = t

IsFunctionCall(item) == IsType(item, "function_call")

RECURSIVE CountCalls(_)
CountCalls(output) ==
    IF output = <<>> THEN 0
    ELSE (IF IsFunctionCall(Last(output)) THEN 1 ELSE 0)
         + CountCalls(SubSeq(output, 1, Len(output) - 1))

\* The output of a response made of the given shapes, the call ids counting on
\* from `used`, the number of ids the endpoint has given out before.
RECURSIVE OutputOf(_, _)
OutputOf(shapes, used) ==
    IF shapes = <<>> THEN <<>>
    ELSE LET front == OutputOf(SubSeq(shapes, 1, Len(shapes) - 1), used)
         IN Append(front, ItemObject(Last(shapes), used + CountCalls(front) + 1))

RECURSIVE CallsIn(_)
CallsIn(rs) ==
    IF rs = <<>> THEN 0
    ELSE CallsIn(SubSeq(rs, 1, Len(rs) - 1)) + CountCalls(Last(rs).output)

\* The seeded transcript holds a finished call with id 0; the endpoint's ids go on from 1.
PriorHistory ==
    <<[role |-> "user", content |-> "Any new mail?"],
      [type |-> "function_call", call_id |-> 0, name |-> "gmail_list_messages",
       arguments |-> PyStr("{\"max_results\": 5}")],
      [type |-> "function_call_output", call_id |-> 0, output |-> "{\"messages\": []}"]>>

(***************************************************************************)
(* filter_input_item and the conversion loop (lines 761-787).              *)
(***************************************************************************)
\* The dictionary handed back with all its keys.
filter_input_item_keeps_all(item_dict, fields) == item_dict

filter_input_item(item_dict, fields) ==
    [k \in (DOMAIN item_dict \cap fields) |-> item_dict[k]]

model_dump(item) == item.attrs

\* The manual conversion of an item without model_dump.
FallbackDict(item) ==
    [k \in (DOMAIN item.attrs \cap {"type", "content", "name", "arguments", "call_id", "role"})
        |-> item.attrs[k]]

\* The conversion loop without the reasoning check.
SkipItemNever(item) == FALSE

SkipItem(item) == IsType(item, "reasoning")

\* The conversion without the branch for items that have no model_dump.
ConvertItemDumpableOnly(list, item) ==
    IF SkipItem(item) \/ ~item.dumpable THEN list
    ELSE LET d == filter_input_item(model_dump(item), valid_input_fields)
         IN IF DOMAIN d # {} THEN Append(list, d) ELSE list

\* The converted item put in front of the transcript.
ConvertItemPrepends(list, item) ==
    IF SkipItem(item) THEN list
    ELSE LET d == IF item.dumpable
                  THEN filter_input_item(model_dump(item), valid_input_fields)
                  ELSE FallbackDict(item)
         IN IF DOMAIN d # {} THEN <<d>> \o list ELSE list

\* What one output item adds to the transcript.
ConvertItem(list, item) ==
    IF SkipItem(item) THEN list
    ELSE LET d == IF item.dumpable
                  THEN filter_input_item(model_dump(item), valid_input_fields)
                  ELSE FallbackDict(item)
         IN IF DOMAIN d # {} THEN Append(list, d) ELSE list

RECURSIVE ConvertOutput(_, _)
ConvertOutput(list, output) ==
    IF output = <<>> THEN list
    ELSE ConvertItem(ConvertOutput(list, SubSeq(output, 1, Len(output) - 1)), Last(output))

(***************************************************************************)
(* The dispatch of one function_call item (lines 792-821).                 *)
(***************************************************************************)
\* Line 798: json.loads(item.arguments) if it is a str, else item.arguments.
ParseArguments(arguments) ==
    IF IsStr(arguments) THEN json_loads(arguments.str)
    ELSE [ok |-> TRUE, value |-> arguments]

\* Line 801, function_map[function_name](**args) up to the entry of the function:
\* the keyword arguments the tool is entered with, or the TypeError of the call.
BindArguments(function_name, args) ==
    IF ~IsDict(args)
    THEN [ok |-> FALSE,
          error |-> function_name \o "() argument after ** must be a mapping, not list"]
    ELSE IF ~(DOMAIN args.dict \subseteq module_globals.function_map[function_name].params)
    THEN [ok |-> FALSE,
          error |-> function_name \o "() got an unexpected keyword argument"]
    ELSE IF ~(module_globals.function_map[function_name].required \subseteq DOMAIN args.dict)
    THEN [ok |-> FALSE,
          error |-> function_name \o "() missing required positional arguments"]
    ELSE [ok |-> TRUE, kwargs |-> args.dict]

\* Lines 798-801 up to the entry of the tool.
PrepareCall(item) ==
    LET parsed == ParseArguments(item.attrs.arguments)
    IN IF parsed.ok THEN BindArguments(item.attrs.name, parsed.value) ELSE parsed

function_call_output(call_id, output) ==
    [type |-> "function_call_output", call_id |-> call_id, output |-> output]

\* Lines 811-815
ErrorOutput(item, message) ==
    function_call_output(item.attrs.call_id, json_dumps_error(message))

\* The unknown-name output without the name in its message.
UnknownOutputNameless(item) ==
    function_call_output(item.attrs.call_id, json_dumps_error("Unknown function"))

\* Lines 817-821
UnknownOutput(item) ==
    function_call_output(item.attrs.call_id,
                         json_dumps_error("Unknown function: " \o item.attrs.name))

\* The result encoded once more before it is appended.
ResultOutputReencoded(item, function_result) ==
    function_call_output(item.attrs.call_id, json_dumps_error(function_result))

\* Lines 804-808
ResultOutput(item, function_result) ==
    function_call_output(item.attrs.call_id, function_result)

\* What a tool can return and the messages of the exceptions it can raise.
ToolResults == {"{\"messages\": []}", "{\"documents\": []}"}
ToolErrors == {"HttpError 403"}

\* What the wrapper of a name returns: gmail_list_messages its messages (line 462),
\* docs_list_documents its documents (line 565).
ToolResultsOf(function_name) ==
    IF function_name = "docs_list_documents" THEN {"{\"documents\": []}"}
    ELSE {"{\"messages\": []}"}

\* The first position at or after i of a function_call item of the output,
\* Len(output) + 1 when there is none: the for loop of line 791 acts on no other item.
RECURSIVE NextCall(_, _)
NextCall(output, i) ==
    IF i > Len(output) THEN Len(output) + 1
    ELSE IF IsFunctionCall(output[i]) THEN i
    ELSE NextCall(output, i + 1)

(***************************************************************************)
(* The run of process_llm_with_tools.                                      *)
(***************************************************************************)
None == [none |-> TRUE]

\* The tool descriptor list: one descriptor per registered name, and web_search.
tools == DOMAIN function_map \cup {"web_search"}

\* The current value of the local variable response (unbound before the first response).
response == Last(responses)

\* The n-th response of the endpoint with the given output items.
ResponseObject(n, output) ==
    IF sdk_output_text
    THEN [id |-> n, output |-> output, output_text |-> PyStr("answer " \o ToString(n))]
    ELSE [id |-> n, output |-> output]

\* The loop test with an inclusive comparison.
WhileTestInclusive(i, max) == i <= max

\* Line 749
WhileTest(i, max) == i < max

\* The loop without its break.
BreakTestNever(flag) == FALSE

\* Line 824
BreakTest(flag) == ~flag

(***************************************************************************)
(* The process outside a run: the service cache of main.py, the            *)
(* authentication routines of the channel modules and the token file of    *)
(* gmail.py.                                                               *)
(***************************************************************************)
\* The service types get_cached_service has a branch for (lines 120-137).
ServiceTypes == {"gmail", "calendar", "docs", "drive", "meet", "sheets"}

\* The service types the process asks get_cached_service for: those of the
\* wrappers, and "tasks", the channel module main.py has no branch for.
RequestedTypes == ServiceTypes \cup {"tasks"}

\* The authentication routine get_cached_service calls for a service type.
RoutineOf(service_type) ==
    CASE service_type = "gmail" -> "gmail.get_service"
      [] service_type = "calendar" -> "google_calender.get_service"
      [] service_type = "docs" -> "google_docs.get_service"
      [] service_type = "drive" -> "google_drive.get_service"
      [] service_type = "meet" -> "google_meet.get_service"
      [] service_type = "sheets" -> "google_sheets.get_service"

Routines == {RoutineOf(s) : s \in ServiceTypes} \cup {"google_docs.get_drive_service"}

\* The service type each wrapper passes to get_cached_service.  docs_list_documents
\* is not among them: it calls get_drive_service of google_docs itself.
wrapper_service_type ==
    [gmail_list_messages |-> "gmail", gmail_get_message |-> "gmail",
     gmail_send_email |-> "gmail", gmail_mark_as_read |-> "gmail",
     gmail_delete_message |-> "gmail",
     calendar_list_events |-> "calendar", calendar_create_event |-> "calendar",
     calendar_delete_event |-> "calendar",
     docs_create_document |-> "docs", docs_get_document |-> "docs",
     docs_insert_text |-> "docs",
     drive_list_files |-> "drive", drive_get_file |-> "drive",
     drive_create_folder |-> "drive", drive_search_files |-> "drive",
     meet_create_meeting |-> "meet", meet_create_meeting_now |-> "meet",
     meet_list_meetings |-> "meet", meet_get_meeting |-> "meet",
     sheets_create_spreadsheet |-> "sheets", sheets_read_range |-> "sheets",
     sheets_write_range |-> "sheets", sheets_append_row |-> "sheets"]

\* The object the run-th run of an authentication routine builds.
ServiceObject(routine, run) == [api |-> routine, run |-> run]

\* Credentials (google.oauth2.credentials.Credentials): scopes is "required" when
\* creds.scopes holds every scope of SCOPES, "other" when it is a non-empty list
\* that does not, "none" when it is None or empty.
Credentials(id, valid, expired, refresh_token, scopes) ==
    [id |-> id, valid |-> valid, expired |-> expired, refresh_token |-> refresh_token,
     scopes |-> scopes]

NoFile == [exists |-> FALSE, loadable |-> FALSE, creds |-> None]

TokenFile(c) == [exists |-> TRUE, loadable |-> TRUE, creds |-> c]

\* What token_gmail.json can hold when the process starts: nothing, text that
\* from_authorized_user_file rejects, or stored credentials (id 0).
StoredTokens ==
    {NoFile,
     [exists |-> TRUE, loadable |-> FALSE, creds |-> None],
     TokenFile(Credentials(0, TRUE, FALSE, TRUE, "required")),
     TokenFile(Credentials(0, TRUE, FALSE, TRUE, "other")),
     TokenFile(Credentials(0, TRUE, FALSE, TRUE, "none")),
     TokenFile(Credentials(0, FALSE, TRUE, TRUE, "required")),
     TokenFile(Credentials(0, FALSE, TRUE, FALSE, "required")),
     TokenFile(Credentials(0, FALSE, FALSE, FALSE, "required"))}

NoOp == [wrapper |-> "", service_type |-> "", routine |-> "", cached |-> FALSE]

\* What a run of gmail.get_service has met so far: the token file it found, how
\* loading it went ("ok", "unloadable", "scope"), how refresh and the interactive
\* flow went ("returned", "raised"), and whether it has written the token file.
NoTrace == [found |-> NoFile, load |-> "", refresh |-> "", flow |-> "", wrote |-> FALSE]

\* The process after the import of main.py: nothing cached, nothing called.
ProcessStart ==
    /\ module_globals = [tools |-> tools, function_map |-> function_map]
    /\ service_cache = <<>>
    /\ ppc = "idle"
    /\ op = NoOp
    /\ op_result = [outcome |-> "", value |-> None]
    /\ ncalls = 0
    /\ auth_runs = [r \in Routines |-> 0]
    /\ auth_failures = [r \in Routines |-> 0]
    /\ creds = None
    /\ trace = NoTrace

TypeOK ==
    /\ pc \in {"start", "loop", "awaiting", "convert", "dispatch", "in_tool",
               "exit", "done", "raised"}
    /\ max_iterations \in -1..MaxIter
    /\ iteration \in 0..MaxIter
    /\ history_given \in BOOLEAN
    /\ has_function_calls \in BOOLEAN
    /\ sdk_output_text \in BOOLEAN
    /\ Len(requests) <= MaxIter
    /\ Len(responses) <= Len(requests)

Init ==
    /\ pc = "start"
    /\ max_iterations \in -1..MaxIter
    /\ history_given \in BOOLEAN
    /\ conversation_history = (IF history_given THEN PriorHistory ELSE <<>>)
    /\ sdk_output_text \in BOOLEAN
    /\ input_list = <<>>
    /\ iteration = 0
    /\ responses = <<>>
    /\ idx = 0
    /\ has_function_calls = FALSE
    /\ requests = <<>>
    /\ invocations = <<>>
    /\ result = <<>>
    /\ raised = ""
    /\ ProcessStart
    /\ token_file = NoFile

\* The caller's list if input_list were the caller's list itself, not a copy.
CallerListShared(list) == IF history_given THEN list ELSE conversation_history

\* Line 739: input_list is a copy of conversation_history, so the items of the
\* caller's list stay what they are whatever the new value (list) of input_list.
CallerList(list) == conversation_history

\* Lines 735-748: copy the caller's history, append the user message.
Start ==
    /\ pc = "start"
    /\ input_list' = Append(IF history_given THEN conversation_history ELSE <<>>,
                            [role |-> "user", content |-> user_message])
    /\ conversation_history' = CallerList(input_list')
    /\ iteration' = 0
    /\ pc' = "loop"
    /\ UNCHANGED <<max_iterations, history_given, responses, idx,
                   has_function_calls, requests, invocations, result, raised,
                   sdk_output_text,
                   module_globals, process_vars>>

\* The endpoint call with the instructions on every iteration.
SendRequestAlwaysInstructs ==
    /\ pc = "loop"
    /\ WhileTest(iteration, max_iterations)
    /\ iteration' = iteration + 1
    /\ requests' = Append(requests,
                          [model |-> model, tools |-> module_globals.tools, input |-> input_list,
                           instructions |-> PyStr(instructions)])
    /\ pc' = "awaiting"
    /\ UNCHANGED <<max_iterations, conversation_history, history_given, input_list,
                   responses, idx, has_function_calls, invocations, result, raised,
                   sdk_output_text,
                   module_globals, process_vars>>

\* The endpoint call that takes the last descriptor off the global list once the
\* first request is built.
SendRequestConsumesTools ==
    /\ pc = "loop"
    /\ WhileTest(iteration, max_iterations)
    /\ iteration' = iteration + 1
    /\ requests' = Append(requests,
                          [model |-> model, tools |-> module_globals.tools,
                           input |-> input_list,
                           instructions |-> IF iteration' = 1 THEN PyStr(instructions)
                                            ELSE None])
    /\ module_globals' = [module_globals EXCEPT !.tools = @ \ {"web_search"}]
    /\ pc' = "awaiting"
    /\ UNCHANGED <<max_iterations, conversation_history, history_given, input_list,
                   responses, idx, has_function_calls, invocations, result, raised,
                   sdk_output_text, process_vars>>

\* Lines 749-758: the loop test passes and client.responses.create is called.
SendRequest ==
    /\ pc = "loop"
    /\ WhileTest(iteration, max_iterations)
    /\ iteration' = iteration + 1
    /\ requests' = Append(requests,
                          [model |-> model, tools |-> module_globals.tools, input |-> input_list,
                           instructions |-> IF iteration' = 1 THEN PyStr(instructions)
                                            ELSE None])
    /\ pc' = "awaiting"
    /\ UNCHANGED <<max_iterations, conversation_history, history_given, input_list,
                   responses, idx, has_function_calls, invocations, result, raised,
                   sdk_output_text,
                   module_globals, process_vars>>

\* Line 753: the endpoint returns a response.
EndpointReturns ==
    /\ pc = "awaiting"
    /\ \E shapes \in SeqsUpTo(Shapes, MaxItems) :
          responses' = Append(responses,
                              ResponseObject(Len(responses) + 1,
                                             OutputOf(shapes, CallsIn(responses))))
    /\ pc' = "convert"
    /\ UNCHANGED <<max_iterations, conversation_history, history_given, input_list,
                   iteration, idx, has_function_calls, requests, invocations, result,
                   raised, sdk_output_text,
                   module_globals, process_vars>>

\* The endpoint failure caught and the loop gone round again.
EndpointRaisesRetried ==
    /\ pc = "awaiting"
    /\ pc' = "loop"
    /\ UNCHANGED <<max_iterations, conversation_history, history_given, input_list,
                   iteration, responses, idx, has_function_calls, requests, invocations,
                   result, raised, sdk_output_text,
                   module_globals, process_vars>>

\* Line 753: the endpoint call raises; nothing in the function catches it.
EndpointRaises ==
    /\ pc = "awaiting"
    /\ raised' = "APIError"
    /\ pc' = "raised"
    /\ UNCHANGED <<max_iterations, conversation_history, history_given, input_list,
                   iteration, responses, idx, has_function_calls, requests, invocations,
                   result, sdk_output_text,
                   module_globals, process_vars>>

\* The dispatch loop skipped in the last iteration the budget allows.
ConvertResponseStopsAtBudget ==
    /\ pc = "convert"
    /\ input_list' = ConvertOutput(input_list, response.output)
    /\ conversation_history' = CallerList(input_list')
    /\ has_function_calls' = FALSE
    /\ idx' = (IF iteration = max_iterations THEN Len(response.output) + 1
               ELSE NextCall(response.output, 1))
    /\ pc' = "dispatch"
    /\ UNCHANGED <<max_iterations, history_given, iteration,
                   responses, requests, invocations, result, raised, sdk_output_text,
                   module_globals, process_vars>>

\* Lines 760-790: the output items are converted and appended; the dispatch loop starts.
ConvertResponse ==
    /\ pc = "convert"
    /\ input_list' = ConvertOutput(input_list, response.output)
    /\ conversation_history' = CallerList(input_list')
    /\ has_function_calls' = FALSE
    /\ idx' = NextCall(response.output, 1)
    /\ pc' = "dispatch"
    /\ UNCHANGED <<max_iterations, history_given, iteration,
                   responses, requests, invocations, result, raised, sdk_output_text,
                   module_globals, process_vars>>

\* The item the dispatch loop is at.
item == response.output[idx]

\* The unknown-name branch without its append.
UnknownFunctionSilent ==
    /\ pc = "dispatch"
    /\ idx <= Len(response.output)
    /\ ~Registered(item.attrs.name)
    /\ has_function_calls' = TRUE
    /\ idx' = NextCall(response.output, idx + 1)
    /\ UNCHANGED <<pc, max_iterations, conversation_history, history_given, input_list,
                   iteration, responses, requests, invocations, result, raised,
                   sdk_output_text,
                   module_globals, process_vars>>

\* Lines 792-795, 816-821: a function_call whose name is not in function_map.
UnknownFunction ==
    /\ pc = "dispatch"
    /\ idx <= Len(response.output)
    /\ ~Registered(item.attrs.name)
    /\ has_function_calls' = TRUE
    /\ input_list' = Append(input_list, UnknownOutput(item))
    /\ conversation_history' = CallerList(input_list')
    /\ idx' = NextCall(response.output, idx + 1)
    /\ UNCHANGED <<pc, max_iterations, history_given, iteration,
                   responses, requests, invocations, result, raised, sdk_output_text,
                   module_globals, process_vars>>

\* The arguments decoded outside the try block: the exception leaves the run.
ArgumentsRejectedPropagates ==
    /\ pc = "dispatch"
    /\ idx <= Len(response.output)
    /\ Registered(item.attrs.name)
    /\ ~PrepareCall(item).ok
    /\ has_function_calls' = TRUE
    /\ raised' = PrepareCall(item).error
    /\ pc' = "raised"
    /\ UNCHANGED <<max_iterations, conversation_history, history_given, input_list,
                   iteration, responses, idx, requests, invocations, result,
                   sdk_output_text,
                   module_globals, process_vars>>

\* The handler appends the error and leaves the dispatch loop.
ArgumentsRejectedAborts ==
    /\ pc = "dispatch"
    /\ idx <= Len(response.output)
    /\ Registered(item.attrs.name)
    /\ ~PrepareCall(item).ok
    /\ has_function_calls' = TRUE
    /\ input_list' = Append(input_list, ErrorOutput(item, PrepareCall(item).error))
    /\ conversation_history' = CallerList(input_list')
    /\ idx' = Len(response.output) + 1
    /\ UNCHANGED <<pc, max_iterations, history_given, iteration,
                   responses, requests, invocations, result, raised, sdk_output_text,
                   module_globals, process_vars>>

\* Lines 792-801, 809-815: decoding the arguments or passing them to the function
\* raises before the tool is entered; the handler appends the error.
ArgumentsRejected ==
    /\ pc = "dispatch"
    /\ idx <= Len(response.output)
    /\ Registered(item.attrs.name)
    /\ ~PrepareCall(item).ok
    /\ has_function_calls' = TRUE
    /\ input_list' = Append(input_list, ErrorOutput(item, PrepareCall(item).error))
    /\ conversation_history' = CallerList(input_list')
    /\ idx' = NextCall(response.output, idx + 1)
    /\ UNCHANGED <<pc, max_iterations, history_given, iteration,
                   responses, requests, invocations, result, raised, sdk_output_text,
                   module_globals, process_vars>>

\* The tool started without waiting for it: the loop goes on to the next item.
InvokeToolNoWait ==
    /\ pc = "dispatch"
    /\ idx <= Len(response.output)
    /\ Registered(item.attrs.name)
    /\ PrepareCall(item).ok
    /\ has_function_calls' = TRUE
    /\ invocations' = Append(invocations,
                             [name |-> item.attrs.name, call_id |-> item.attrs.call_id,
                              kwargs |-> PrepareCall(item).kwargs,
                              iteration |-> iteration, outcome |-> "running",
                              returned |-> ""])
    /\ idx' = NextCall(response.output, idx + 1)
    /\ UNCHANGED <<pc, max_iterations, conversation_history, history_given, input_list,
                   iteration, responses, requests, result, raised, sdk_output_text,
                   module_globals, process_vars>>

\* Lines 792-801: the tool is entered with the decoded keyword arguments.
InvokeTool ==
    /\ pc = "dispatch"
    /\ idx <= Len(response.output)
    /\ Registered(item.attrs.name)
    /\ PrepareCall(item).ok
    /\ has_function_calls' = TRUE
    /\ invocations' = Append(invocations,
                             [name |-> item.attrs.name, call_id |-> item.attrs.call_id,
                              kwargs |-> PrepareCall(item).kwargs,
                              iteration |-> iteration, outcome |-> "running",
                              returned |-> ""])
    /\ pc' = "in_tool"
    /\ UNCHANGED <<max_iterations, conversation_history, history_given, input_list,
                   iteration, responses, idx, requests, result, raised, sdk_output_text,
                   module_globals, process_vars>>

\* The result put right behind its function_call item instead of at the end.
ToolReturnsBehindItsCall ==
    /\ pc = "in_tool"
    /\ \E function_result \in ToolResultsOf(item.attrs.name) :
          LET p == CHOOSE i \in DOMAIN input_list :
                       /\ "type" \in DOMAIN input_list[i]
                       /\ input_list[i].type = "function_call"
                       /\ input_list[i].call_id = item.attrs.call_id
          IN /\ input_list' = SubSeq(input_list, 1, p)
                                 \o <<ResultOutput(item, function_result)>>
                                 \o SubSeq(input_list, p + 1, Len(input_list))
             /\ invocations' = [invocations EXCEPT ![Len(invocations)].outcome = "returned",
                                                   ![Len(invocations)].returned = function_result]
    /\ conversation_history' = CallerList(input_list')
    /\ idx' = NextCall(response.output, idx + 1)
    /\ pc' = "dispatch"
    /\ UNCHANGED <<max_iterations, history_given, iteration,
                   responses, has_function_calls, requests, result, raised,
                   sdk_output_text, module_globals, process_vars>>

\* Lines 801-808: the tool returns and its result is appended.
ToolReturns ==
    /\ pc = "in_tool"
    /\ \E function_result \in ToolResultsOf(item.attrs.name) :
          /\ input_list' = Append(input_list, ResultOutput(item, function_result))
          /\ invocations' = [invocations EXCEPT ![Len(invocations)].outcome = "returned",
                                                ![Len(invocations)].returned = function_result]
    /\ conversation_history' = CallerList(input_list')
    /\ idx' = NextCall(response.output, idx + 1)
    /\ pc' = "dispatch"
    /\ UNCHANGED <<max_iterations, history_given, iteration,
                   responses, has_function_calls, requests, result, raised,
                   sdk_output_text,
                   module_globals, process_vars>>

\* The exception handler without its append.
ToolRaisesSilent ==
    /\ pc = "in_tool"
    /\ idx' = NextCall(response.output, idx + 1)
    /\ invocations' = [invocations EXCEPT ![Len(invocations)].outcome = "raised"]
    /\ pc' = "dispatch"
    /\ UNCHANGED <<max_iterations, conversation_history, history_given, input_list,
                   iteration, responses, has_function_calls, requests, result, raised,
                   sdk_output_text,
                   module_globals, process_vars>>

\* The tool called outside the try block: its exception leaves the run.
ToolRaisesPropagates ==
    /\ pc = "in_tool"
    /\ \E e \in ToolErrors : raised' = e
    /\ invocations' = [invocations EXCEPT ![Len(invocations)].outcome = "raised"]
    /\ pc' = "raised"
    /\ UNCHANGED <<max_iterations, conversation_history, history_given, input_list,
                   iteration, responses, idx, has_function_calls, requests, result,
                   sdk_output_text,
                   module_globals, process_vars>>

\* The handler calls the tool a second time before it gives up.
ToolRaisesRetries ==
    /\ pc = "in_tool"
    /\ IF Cardinality({v \in DOMAIN invocations :
                         invocations[v].call_id = item.attrs.call_id}) = 1
       THEN /\ invocations' = Append([invocations EXCEPT ![Len(invocations)].outcome = "raised"],
                                     Last(invocations))
            /\ UNCHANGED <<pc, idx, input_list, conversation_history>>
       ELSE /\ \E e \in ToolErrors :
                  input_list' = Append(input_list, ErrorOutput(item, e))
            /\ conversation_history' = CallerList(input_list')
            /\ idx' = NextCall(response.output, idx + 1)
            /\ invocations' = [invocations EXCEPT ![Len(invocations)].outcome = "raised"]
            /\ pc' = "dispatch"
    /\ UNCHANGED <<max_iterations, history_given, iteration,
                   responses, has_function_calls, requests, result, raised,
                   sdk_output_text, module_globals, process_vars>>

\* Lines 801, 809-815: the tool raises an Exception and the handler appends the error.
ToolRaises ==
    /\ pc = "in_tool"
    /\ \E e \in ToolErrors :
          input_list' = Append(input_list, ErrorOutput(item, e))
    /\ conversation_history' = CallerList(input_list')
    /\ idx' = NextCall(response.output, idx + 1)
    /\ invocations' = [invocations EXCEPT ![Len(invocations)].outcome = "raised"]
    /\ pc' = "dispatch"
    /\ UNCHANGED <<max_iterations, history_given, iteration,
                   responses, has_function_calls, requests, result, raised,
                   sdk_output_text,
                   module_globals, process_vars>>

\* Lines 791, 823-825: the dispatch loop is over; break or go back to the loop test.
EndBatch ==
    /\ pc = "dispatch"
    /\ idx > Len(response.output)
    /\ pc' = (IF BreakTest(has_function_calls) THEN "exit" ELSE "loop")
    /\ UNCHANGED <<max_iterations, conversation_history, history_given, input_list,
                   iteration, responses, idx, has_function_calls, requests, invocations,
                   result, raised, sdk_output_text,
                   module_globals, process_vars>>

\* The loop has been left by break or by its test.
LoopLeft == pc = "exit" \/ (pc = "loop" /\ ~WhileTest(iteration, max_iterations))

\* The return of the first response of the run instead of the last.
ReturnFirstResponse ==
    /\ LoopLeft
    /\ responses # <<>>
    /\ result' = [response |-> responses[1],
                  output_text |-> IF "output_text" \in DOMAIN responses[1]
                                  THEN responses[1].output_text ELSE None,
                  conversation_history |-> input_list]
    /\ pc' = "done"
    /\ UNCHANGED <<max_iterations, conversation_history, history_given, input_list,
                   iteration, responses, idx, has_function_calls, requests, invocations,
                   raised, sdk_output_text,
                   module_globals, process_vars>>

\* The return that raises when the last response still asked for tools.
ReturnRaisesOnExhaustion ==
    /\ LoopLeft
    /\ responses # <<>>
    /\ IF has_function_calls
       THEN /\ raised' = "RuntimeError"
            /\ pc' = "raised"
            /\ UNCHANGED result
       ELSE /\ result' = [response |-> response,
                          output_text |-> IF "output_text" \in DOMAIN response
                                          THEN response.output_text ELSE None,
                          conversation_history |-> input_list]
            /\ pc' = "done"
            /\ UNCHANGED raised
    /\ UNCHANGED <<max_iterations, conversation_history, history_given, input_list,
                   iteration, responses, idx, has_function_calls, requests, invocations,
                   sdk_output_text,
                   module_globals, process_vars>>

\* Lines 827-831
Return ==
    /\ LoopLeft
    /\ responses # <<>>
    /\ result' = [response |-> response,
                  output_text |-> IF "output_text" \in DOMAIN response
                                  THEN response.output_text ELSE None,
                  conversation_history |-> input_list]
    /\ pc' = "done"
    /\ UNCHANGED <<max_iterations, conversation_history, history_given, input_list,
                   iteration, responses, idx, has_function_calls, requests, invocations,
                   raised, sdk_output_text,
                   module_globals, process_vars>>

\* The return with response initialised to None before the loop.
ReturnUnboundGivesNone ==
    /\ LoopLeft
    /\ responses = <<>>
    /\ result' = [response |-> None, output_text |-> None,
                  conversation_history |-> input_list]
    /\ pc' = "done"
    /\ UNCHANGED <<max_iterations, conversation_history, history_given, input_list,
                   iteration, responses, idx, has_function_calls, requests, invocations,
                   raised, sdk_output_text, module_globals, process_vars>>

\* Lines 827-828 when the loop body never ran: response is unbound.
ReturnUnbound ==
    /\ LoopLeft
    /\ responses = <<>>
    /\ raised' = "UnboundLocalError"
    /\ pc' = "raised"
    /\ UNCHANGED <<max_iterations, conversation_history, history_given, input_list,
                   iteration, responses, idx, has_function_calls, requests, invocations,
                   result, sdk_output_text,
                   module_globals, process_vars>>

Next ==
    \/ Start
    \/ SendRequest
    \/ EndpointReturns
    \/ EndpointRaises
    \/ ConvertResponse
    \/ UnknownFunction
    \/ ArgumentsRejected
    \/ InvokeTool
    \/ ToolReturns
    \/ ToolRaises
    \/ EndBatch
    \/ Return
    \/ ReturnUnbound

Spec == Init /\ [][Next]_vars

\* Every call to the endpoint or to a tool returns or raises, and the run's own
\* steps are taken: the run is one sequential thread.
FairSpec == Spec /\ WF_vars(Next)

(***************************************************************************)
(* The process: calls of the wrappers and of get_cached_service, one at a  *)
(* time, as the dispatch loop makes them.                                  *)
(***************************************************************************)
Returns(value) == [outcome |-> "returned", value |-> value]

Raises(exception) == [outcome |-> "raised", value |-> [exception |-> exception]]

\* A call begins: the position it starts at, and the routine run it may enter.
Begin(wrapper, service_type, position) ==
    /\ ppc = "idle"
    /\ ncalls < MaxCalls
    /\ ncalls' = ncalls + 1
    /\ op' = [wrapper |-> wrapper, service_type |-> service_type, routine |-> "",
              cached |-> TRUE]
    /\ op_result' = [outcome |-> "", value |-> None]
    /\ ppc' = position
    /\ UNCHANGED <<service_cache, auth_runs, auth_failures, token_file, creds, trace>>

\* Lines 458-671 but 561-565: a wrapper asks the cache for the service of its type.
CallWrapper ==
    /\ \E function_name \in DOMAIN wrapper_service_type :
          Begin(function_name, wrapper_service_type[function_name], "get_cached_service")
    /\ UNCHANGED <<run_vars, module_globals>>

\* get_cached_service called with any service type.
CallGetCachedService ==
    /\ \E service_type \in RequestedTypes : Begin("", service_type, "get_cached_service")
    /\ UNCHANGED <<run_vars, module_globals>>

\* Lines 561-563: docs_list_documents calls get_drive_service of google_docs itself.
docs_list_documents ==
    /\ ppc = "idle"
    /\ ncalls < MaxCalls
    /\ ncalls' = ncalls + 1
    /\ op' = [wrapper |-> "docs_list_documents", service_type |-> "",
              routine |-> "google_docs.get_drive_service", cached |-> FALSE]
    /\ op_result' = [outcome |-> "", value |-> None]
    /\ auth_runs' = [auth_runs EXCEPT !["google_docs.get_drive_service"] = @ + 1]
    /\ ppc' = "auth"
    /\ UNCHANGED <<service_cache, auth_failures, token_file, creds, trace>>
    /\ UNCHANGED <<run_vars, module_globals>>

\* The test of line 119 passing whether or not the type has an entry: the routine
\* is entered again.
CacheHitReauthenticates ==
    /\ ppc = "get_cached_service"
    /\ op.service_type \in DOMAIN service_cache
    /\ op' = [op EXCEPT !.routine = RoutineOf(op.service_type)]
    /\ auth_runs' = [auth_runs EXCEPT ![RoutineOf(op.service_type)] = @ + 1]
    /\ ppc' = (IF op.service_type = "gmail" THEN "gmail_exists" ELSE "auth")
    /\ creds' = None
    /\ trace' = [NoTrace EXCEPT !.found = token_file]
    /\ UNCHANGED <<service_cache, op_result, ncalls, auth_failures, token_file>>
    /\ UNCHANGED <<run_vars, module_globals>>

\* Lines 119, 138: the service type has an entry, which is returned.
CacheHit ==
    /\ ppc = "get_cached_service"
    /\ op.service_type \in DOMAIN service_cache
    /\ op_result' = Returns(service_cache[op.service_type])
    /\ ppc' = "idle"
    /\ UNCHANGED <<service_cache, op, ncalls, auth_runs, auth_failures, token_file,
                   creds, trace>>
    /\ UNCHANGED <<run_vars, module_globals>>

\* Lines 119-137: no entry yet; the authentication routine of the type is entered.
CacheMiss ==
    /\ ppc = "get_cached_service"
    /\ op.service_type \notin DOMAIN service_cache
    /\ op.service_type \in ServiceTypes
    /\ op' = [op EXCEPT !.routine = RoutineOf(op.service_type)]
    /\ auth_runs' = [auth_runs EXCEPT ![RoutineOf(op.service_type)] = @ + 1]
    /\ ppc' = (IF op.service_type = "gmail" THEN "gmail_exists" ELSE "auth")
    /\ creds' = None
    /\ trace' = [NoTrace EXCEPT !.found = token_file]
    /\ UNCHANGED <<service_cache, op_result, ncalls, auth_failures, token_file>>
    /\ UNCHANGED <<run_vars, module_globals>>

\* Lines 119-138: no entry and no branch for the type; line 138 raises KeyError.
CacheMissUnknown ==
    /\ ppc = "get_cached_service"
    /\ op.service_type \notin DOMAIN service_cache
    /\ op.service_type \notin ServiceTypes
    /\ op_result' = Raises("KeyError")
    /\ ppc' = "idle"
    /\ UNCHANGED <<service_cache, op, ncalls, auth_runs, auth_failures, token_file,
                   creds, trace>>
    /\ UNCHANGED <<run_vars, module_globals>>

\* The cache after the routine of a call returned a service object: lines 122-137
\* store it under the service type; docs_list_documents stores nothing.
Stored(cache, call, service) ==
    IF call.cached
    THEN [s \in DOMAIN cache \cup {call.service_type} |->
            IF s = call.service_type THEN service ELSE cache[s]]
    ELSE cache

\* The routine in progress returns its service object to its caller.
RoutineReturns ==
    LET service == ServiceObject(op.routine, auth_runs[op.routine])
    IN /\ service_cache' = Stored(service_cache, op, service)
       /\ op_result' = Returns(IF op.cached THEN service_cache'[op.service_type]
                               ELSE service)
       /\ ppc' = "idle"
       /\ UNCHANGED <<op, ncalls, auth_runs, auth_failures>>

\* The failure of the routine caught and None stored for the service type.
RoutineRaisesCachesNone(exception) ==
    /\ auth_failures' = [auth_failures EXCEPT ![op.routine] = @ + 1]
    /\ service_cache' = Stored(service_cache, op, None)
    /\ op_result' = Raises(exception)
    /\ ppc' = "idle"
    /\ UNCHANGED <<op, ncalls, auth_runs>>

\* The routine in progress raises: nothing in get_cached_service or the wrapper
\* catches it.
RoutineRaises(exception) ==
    /\ auth_failures' = [auth_failures EXCEPT ![op.routine] = @ + 1]
    /\ op_result' = Raises(exception)
    /\ ppc' = "idle"
    /\ UNCHANGED <<service_cache, op, ncalls, auth_runs>>

\* get_service of a channel module other than gmail (or get_drive_service) returns.
AuthReturns ==
    /\ ppc = "auth"
    /\ RoutineReturns
    /\ UNCHANGED <<token_file, creds, trace>>
    /\ UNCHANGED <<run_vars, module_globals>>

\* get_service of a channel module other than gmail (or get_drive_service) raises.
AuthRaises ==
    /\ ppc = "auth"
    /\ RoutineRaises("AuthError")
    /\ UNCHANGED <<token_file, creds, trace>>
    /\ UNCHANGED <<run_vars, module_globals>>

(***************************************************************************)
(* gmail.get_service (gmail.py, lines 19-76).                              *)
(***************************************************************************)
\* Line 25: os.path.exists(token_path)
GmailTokenExists ==
    /\ ppc = "gmail_exists"
    /\ ppc' = (IF token_file.exists THEN "gmail_load" ELSE "gmail_valid")
    /\ UNCHANGED <<service_cache, op, op_result, ncalls, auth_runs, auth_failures,
                   token_file, creds, trace>>
    /\ UNCHANGED <<run_vars, module_globals>>

\* Lines 29-32: the loaded credentials name scopes and not all the required ones.
LacksScope(c) == c.scopes = "other"

\* Lines 27-35: the token file is loaded; credentials that lack a required scope
\* are dropped and the file removed.
GmailLoad ==
    /\ ppc = "gmail_load"
    /\ token_file.loadable
    /\ IF LacksScope(token_file.creds)
       THEN /\ creds' = None
            /\ token_file' = NoFile
            /\ trace' = [trace EXCEPT !.load = "scope"]
       ELSE /\ creds' = token_file.creds
            /\ trace' = [trace EXCEPT !.load = "ok"]
            /\ UNCHANGED token_file
    /\ ppc' = "gmail_valid"
    /\ UNCHANGED <<service_cache, op, op_result, ncalls, auth_runs, auth_failures>>
    /\ UNCHANGED <<run_vars, module_globals>>

\* Lines 27, 36-40: from_authorized_user_file raises; the file is removed.
GmailLoadRaises ==
    /\ ppc = "gmail_load"
    /\ ~token_file.loadable
    /\ creds' = None
    /\ token_file' = NoFile
    /\ trace' = [trace EXCEPT !.load = "unloadable"]
    /\ ppc' = "gmail_valid"
    /\ UNCHANGED <<service_cache, op, op_result, ncalls, auth_runs, auth_failures>>
    /\ UNCHANGED <<run_vars, module_globals>>

\* not creds or not creds.valid
Unusable(c) == c = None \/ ~c.valid

\* Lines 42-43, 53: usable credentials go to build, expired ones with a refresh
\* token to refresh, anything else to the interactive flow.
GmailValid ==
    /\ ppc = "gmail_valid"
    /\ ppc' = (IF ~Unusable(creds) THEN "gmail_build"
               ELSE IF creds # None /\ creds.expired /\ creds.refresh_token
                    THEN "gmail_refresh"
                    ELSE "gmail_flow")
    /\ UNCHANGED <<service_cache, op, op_result, ncalls, auth_runs, auth_failures,
                   token_file, creds, trace>>
    /\ UNCHANGED <<run_vars, module_globals>>

\* Lines 45, 53: creds.refresh returns; the credentials are valid again.
GmailRefreshReturns ==
    /\ ppc = "gmail_refresh"
    /\ creds' = [creds EXCEPT !.valid = TRUE, !.expired = FALSE]
    /\ trace' = [trace EXCEPT !.refresh = "returned"]
    /\ ppc' = "gmail_build"
    /\ UNCHANGED <<service_cache, op, op_result, ncalls, auth_runs, auth_failures,
                   token_file>>
    /\ UNCHANGED <<run_vars, module_globals>>

\* creds.refresh called outside any try block, as in get_service of google_docs.py:
\* its exception leaves the routine.
GmailRefreshRaisesPropagates ==
    /\ ppc = "gmail_refresh"
    /\ RoutineRaises("RefreshError")
    /\ trace' = [trace EXCEPT !.refresh = "raised"]
    /\ UNCHANGED <<token_file, creds>>
    /\ UNCHANGED <<run_vars, module_globals>>

\* Lines 45-53: creds.refresh raises; the credentials are dropped, the file removed.
GmailRefreshRaises ==
    /\ ppc = "gmail_refresh"
    /\ creds' = None
    /\ token_file' = NoFile
    /\ trace' = [trace EXCEPT !.refresh = "raised"]
    /\ ppc' = "gmail_flow"
    /\ UNCHANGED <<service_cache, op, op_result, ncalls, auth_runs, auth_failures>>
    /\ UNCHANGED <<run_vars, module_globals>>

\* Lines 55-56: the interactive flow returns new credentials.
GmailFlowReturns ==
    /\ ppc = "gmail_flow"
    /\ creds' = Credentials(auth_runs["gmail.get_service"], TRUE, FALSE, TRUE, "required")
    /\ trace' = [trace EXCEPT !.flow = "returned"]
    /\ ppc' = "gmail_write"
    /\ UNCHANGED <<service_cache, op, op_result, ncalls, auth_runs, auth_failures,
                   token_file>>
    /\ UNCHANGED <<run_vars, module_globals>>

\* Lines 55-72: the interactive flow raises and the handler raises it again.
GmailFlowRaises ==
    /\ ppc = "gmail_flow"
    /\ RoutineRaises("FlowError")
    /\ trace' = [trace EXCEPT !.flow = "raised"]
    /\ UNCHANGED <<token_file, creds>>
    /\ UNCHANGED <<run_vars, module_globals>>

\* Lines 73-74: the credentials of the flow are written to the token file.
GmailWriteToken ==
    /\ ppc = "gmail_write"
    /\ token_file' = TokenFile(creds)
    /\ trace' = [trace EXCEPT !.wrote = TRUE]
    /\ ppc' = "gmail_build"
    /\ UNCHANGED <<service_cache, op, op_result, ncalls, auth_runs, auth_failures,
                   creds>>
    /\ UNCHANGED <<run_vars, module_globals>>

\* Line 76: build returns the service object.
GmailBuildReturns ==
    /\ ppc = "gmail_build"
    /\ RoutineReturns
    /\ UNCHANGED <<token_file, creds, trace>>
    /\ UNCHANGED <<run_vars, module_globals>>

\* Line 76: build raises.
GmailBuildRaises ==
    /\ ppc = "gmail_build"
    /\ RoutineRaises("BuildError")
    /\ UNCHANGED <<token_file, creds, trace>>
    /\ UNCHANGED <<run_vars, module_globals>>

ProcessInit ==
    /\ pc = "start"
    /\ max_iterations = 1
    /\ history_given = FALSE
    /\ conversation_history = <<>>
    /\ sdk_output_text = TRUE
    /\ input_list = <<>>
    /\ iteration = 0
    /\ responses = <<>>
    /\ idx = 0
    /\ has_function_calls = FALSE
    /\ requests = <<>>
    /\ invocations = <<>>
    /\ result = <<>>
    /\ raised = ""
    /\ ProcessStart
    /\ token_file \in StoredTokens

ProcessNext ==
    \/ CallWrapper
    \/ CallGetCachedService
    \/ docs_list_documents
    \/ CacheHit
    \/ CacheMiss
    \/ CacheMissUnknown
    \/ AuthReturns
    \/ AuthRaises
    \/ GmailTokenExists
    \/ GmailLoad
    \/ GmailLoadRaises
    \/ GmailValid
    \/ GmailRefreshReturns
    \/ GmailRefreshRaises
    \/ GmailFlowReturns
    \/ GmailFlowRaises
    \/ GmailWriteToken
    \/ GmailBuildReturns
    \/ GmailBuildRaises

\* The calls of a process, while no run of process_llm_with_tools is in progress.
ProcessSpec == ProcessInit /\ [][ProcessNext]_vars

(***************************************************************************)
(* Properties of the run.                                                  *)
(***************************************************************************)
IsItemType(it, t) == "type" \in DOMAIN it /\ it.type = t

\* The positions of t that hold an item of type ty with call id c.
Positions(t, ty, c) ==
    {i \in DOMAIN t : IsItemType(t[i], ty) /\ t[i].call_id = c}

\* The call ids of the function_call items of the first n responses.
ProducedIds(n) ==
    {responses[k].output[j].attrs.call_id :
        <<k, j>> \in {<<k, j>> \in (1..n) \X (1..MaxItems + 1) :
                        /\ j <= Len(responses[k].output)
                        /\ IsFunctionCall(responses[k].output[j])}}

\* The item j of response k has been passed by the dispatch loop.
Dispatched(k, j) ==
    \/ k < Len(responses)
    \/ /\ k = Len(responses)
       /\ IF pc \in {"dispatch", "in_tool"} THEN idx > j ELSE pc # "convert"

\* The length of the transcript the run starts from (history and user message).
StartLen == (IF history_given THEN Len(conversation_history) ELSE 0) + 1

Returned == pc = "done"

\* C1: in the transcript sent on every endpoint call after the first, every
\* function_call item produced by an earlier response of the run is answered by
\* exactly one function_call_output item with the same call id.
C1_EveryCallAnsweredBeforeNextRequest ==
    \A k \in 2..Len(requests) :
        \A c \in ProducedIds(k - 1) :
            Cardinality(Positions(requests[k].input, "function_call_output", c)) = 1

\* A second request was sent after a response with an unknown call and a call whose
\* tool raised.
C1_Witness ==
    /\ Len(requests) = 2
    /\ \E j \in 1..Len(responses[1].output) :
          /\ IsFunctionCall(responses[1].output[j])
          /\ ~Registered(responses[1].output[j].attrs.name)
    /\ \E v \in DOMAIN invocations :
          invocations[v].iteration = 1 /\ invocations[v].outcome = "raised"

\* The number of items of type ty with call id c among the items StartLen+1..n of t.
CountUpTo(t, ty, c, n) ==
    Cardinality({i \in Positions(t, ty, c) : StartLen < i /\ i <= n})

RunIds(t) ==
    {t[i].call_id : i \in {i \in DOMAIN t : StartLen < i /\ "call_id" \in DOMAIN t[i]}}

\* C2: when the run returns, the function_call items appended during the run are
\* as many as the function_call_output items appended during the run, and the
\* outputs match distinct preceding calls of the same call id: for every call id,
\* no prefix of the transcript holds more outputs than calls, and the totals agree.
C2_CallsAndOutputsPaired ==
    Returned =>
        LET t == result.conversation_history
        IN \A c \in RunIds(t) :
              /\ \A n \in 1..Len(t) :
                    CountUpTo(t, "function_call_output", c, n)
                        <= CountUpTo(t, "function_call", c, n)
              /\ CountUpTo(t, "function_call_output", c, Len(t))
                    = CountUpTo(t, "function_call", c, Len(t))

\* The run returned a transcript to which it added three calls and three outputs,
\* on top of a seeded history that holds a pair of its own.
C2_Witness ==
    /\ Returned
    /\ history_given
    /\ Cardinality({i \in DOMAIN result.conversation_history :
                      /\ i > StartLen
                      /\ IsItemType(result.conversation_history[i], "function_call_output")})
          = 3

AllResponsesCall == \A k \in DOMAIN responses : CountCalls(responses[k].output) >= 1

\* C3: when every response holds at least one function_call and max_iterations >= 1,
\* the loop never breaks, a run that returns has made exactly max_iterations endpoint
\* calls, and it returns the last response, its text and the working transcript;
\* nothing but an endpoint failure ends such a run otherwise.
C3_ExactlyMaxIterationsWhenAlwaysCalling ==
    (max_iterations >= 1 /\ AllResponsesCall) =>
        /\ pc # "exit"
        /\ pc = "raised" => raised = "APIError"
        /\ Returned =>
              /\ Len(requests) = max_iterations
              /\ Len(responses) = max_iterations
              /\ result.response.id = max_iterations
              /\ result.response.output = responses[max_iterations].output
              /\ sdk_output_text =>
                    result.output_text = PyStr("answer " \o ToString(max_iterations))
              /\ ~sdk_output_text => result.output_text = None
              /\ result.conversation_history = input_list

\* A run with max_iterations = 2 returned after two responses that both hold calls.
C3_Witness ==
    /\ Returned
    /\ max_iterations = 2
    /\ AllResponsesCall
    /\ sdk_output_text

Terminated == pc \in {"done", "raised"}

\* C4: under FairSpec (every endpoint call and every tool call returns or raises),
\* every run eventually terminates, and a run started with max_iterations >= 0 never
\* makes more than max_iterations endpoint calls.
C4_TerminatesWithinBudget ==
    /\ <>Terminated
    /\ [](max_iterations >= 0 => Len(requests) <= max_iterations)

\* A run used its whole budget of two endpoint calls, a tool having raised on the way.
C4_Witness ==
    /\ Returned
    /\ max_iterations = 2
    /\ Len(requests) = 2
    /\ \E v \in DOMAIN invocations : invocations[v].outcome = "raised"

\* C5: no endpoint call is made after a response without function_call items: once
\* the k-th response holds none, the run has made k endpoint calls and is on its way
\* out of the loop (so a first response without calls means exactly one call).
C5_StopsAtFirstResponseWithoutCalls ==
    \A k \in DOMAIN responses :
        CountCalls(responses[k].output) = 0 =>
            /\ Len(requests) = k
            /\ Len(responses) = k
            /\ pc \in {"convert", "dispatch", "exit", "done"}

\* A run with a budget of two returned after one endpoint call whose response held
\* items but no function_call.
C5_Witness ==
    /\ Returned
    /\ max_iterations = 2
    /\ Len(requests) = 1
    /\ Len(responses[1].output) = 2

\* The run has left the loop or returned although iteration k was not the last allowed.
EndedEarly(k) == pc \in {"exit", "done"} /\ k < max_iterations /\ Len(requests) <= k

\* C6: when a registered tool raises, the exception does not leave the run: exactly
\* one function_call_output with the call's id is in the transcript, its output is
\* the JSON object {"error": <message>}, and the run does not end in that iteration
\* unless the budget is used up.
C6_ToolErrorContained ==
    \A v \in DOMAIN invocations :
        invocations[v].outcome = "raised" =>
            /\ raised \in {"", "APIError"}
            /\ Cardinality(Positions(input_list, "function_call_output",
                                     invocations[v].call_id)) = 1
            /\ \A i \in Positions(input_list, "function_call_output", invocations[v].call_id) :
                  \E e \in ToolErrors :
                      input_list[i].output = "{\n  \"error\": \"" \o e \o "\"\n}"
            /\ ~EndedEarly(invocations[v].iteration)

\* A tool raised in the first iteration and the second endpoint call was made.
C6_Witness ==
    /\ Len(requests) = 2
    /\ pc = "awaiting"
    /\ \E v \in DOMAIN invocations :
          invocations[v].outcome = "raised" /\ invocations[v].iteration = 1

\* The function_call items that the dispatch loop has passed, as <<k, j>>: item j of
\* response k.
PassedCalls ==
    {<<k, j>> \in (DOMAIN responses) \X (1..MaxItems + 1) :
        /\ j <= Len(responses[k].output)
        /\ IsFunctionCall(responses[k].output[j])
        /\ Dispatched(k, j)}

CallAt(kj) == responses[kj[1]].output[kj[2]].attrs

\* C7: a function_call whose name is not a key of function_map gets exactly one
\* function_call_output with its call id and the output
\* {"error": "Unknown function: <name>"}; no tool is invoked for it, nothing is
\* raised and the run does not end in that iteration unless the budget is used up.
C7_UnknownFunctionAnswered ==
    \A kj \in PassedCalls :
        CallAt(kj).name \notin DOMAIN function_map =>
            /\ Cardinality(Positions(input_list, "function_call_output",
                                     CallAt(kj).call_id)) = 1
            /\ \A i \in Positions(input_list, "function_call_output", CallAt(kj).call_id) :
                  input_list[i].output
                      = "{\n  \"error\": \"Unknown function: " \o CallAt(kj).name \o "\"\n}"
            /\ \A v \in DOMAIN invocations : invocations[v].call_id # CallAt(kj).call_id
            /\ raised \in {"", "APIError"}
            /\ ~EndedEarly(kj[1])

\* The first response named an unknown function and the second endpoint call was made.
C7_Witness ==
    /\ Len(requests) = 2
    /\ \E kj \in PassedCalls : kj[1] = 1 /\ CallAt(kj).name = "web_lookup"

\* C8: no item of type reasoning is in the transcript of any endpoint call, in the
\* working transcript or in the returned conversation_history.
C8_NoReasoningInTranscript ==
    /\ \A k \in DOMAIN requests :
          \A i \in DOMAIN requests[k].input :
              ~IsItemType(requests[k].input[i], "reasoning")
    /\ \A i \in DOMAIN input_list : ~IsItemType(input_list[i], "reasoning")
    /\ Returned =>
          \A i \in DOMAIN result.conversation_history :
              ~IsItemType(result.conversation_history[i], "reasoning")

\* The first response held a reasoning item, a second endpoint call was made and
\* the run returned.
C8_Witness ==
    /\ Returned
    /\ Len(requests) = 2
    /\ \E j \in DOMAIN responses[1].output : IsType(responses[1].output[j], "reasoning")

\* Arguments that cannot be decoded into keyword arguments: a malformed JSON text
\* and a JSON text that is not an object.
Undecodable == {PyStr("{\"max_results\": "), PyStr("[5]")}

\* C9: a function_call for a registered tool with undecodable arguments never
\* enters the tool; exactly one function_call_output with its call id is appended,
\* its output is the JSON object {"error": <message of the decoding error>}, nothing
\* is raised, and the run does not end in that iteration unless the budget is used up.
C9_UndecodableArgumentsContained ==
    \A kj \in PassedCalls :
        (CallAt(kj).name \in DOMAIN function_map /\ CallAt(kj).arguments \in Undecodable) =>
            /\ \A v \in DOMAIN invocations : invocations[v].call_id # CallAt(kj).call_id
            /\ Cardinality(Positions(input_list, "function_call_output",
                                     CallAt(kj).call_id)) = 1
            /\ \A i \in Positions(input_list, "function_call_output", CallAt(kj).call_id) :
                  \E m \in {"Expecting value: line 1 column 17 (char 16)",
                            CallAt(kj).name \o "() argument after ** must be a mapping, not list"} :
                      input_list[i].output = "{\n  \"error\": \"" \o m \o "\"\n}"
            /\ raised \in {"", "APIError"}
            /\ ~EndedEarly(kj[1])

\* The first response held a call with malformed JSON and a call with a JSON list,
\* and the second endpoint call was made.
C9_Witness ==
    /\ Len(requests) = 2
    /\ \E kj \in PassedCalls :
          kj[1] = 1 /\ CallAt(kj).arguments = PyStr("{\"max_results\": ")
    /\ \E kj \in PassedCalls :
          kj[1] = 1 /\ CallAt(kj).arguments = PyStr("[5]")

\* An endpoint call was made and ended without a response.
EndpointFailed == Len(requests) > Len(responses) /\ pc # "awaiting"

\* C10: once an endpoint call has raised, the run has ended with that exception and
\* has returned nothing, and no step makes another endpoint call or tool invocation.
C10_EndpointFailurePropagates ==
    /\ [](EndpointFailed => (pc = "raised" /\ raised = "APIError" /\ DOMAIN result = {}))
    /\ [][EndpointFailed => UNCHANGED <<requests, invocations, input_list, pc, raised>>]_vars

\* The second endpoint call raised after a first iteration that invoked a tool.
C10_Witness ==
    /\ EndpointFailed
    /\ Len(requests) = 2
    /\ invocations # <<>>

\* The dispatch loop is over for response k.
BatchOver(k) ==
    \/ k < Len(responses)
    \/ k = Len(responses) /\ pc \notin {"convert", "dispatch", "in_tool"}

\* C11: once the dispatch loop is over for a response, every function_call item of
\* that response has its own function_call_output in the transcript, also the
\* items that follow a call that failed.
C11_EveryCallOfBatchHandled ==
    \A k \in DOMAIN responses :
        BatchOver(k) =>
            \A j \in DOMAIN responses[k].output :
                IsFunctionCall(responses[k].output[j]) =>
                    Cardinality(Positions(input_list, "function_call_output",
                                          responses[k].output[j].attrs.call_id)) = 1

\* The first call of the first response had malformed arguments, the second call of
\* that response entered its tool, and the next endpoint call was made.
C11_Witness ==
    /\ Len(requests) = 2
    /\ Len(responses[1].output) = 2
    /\ IsFunctionCall(responses[1].output[1])
    /\ responses[1].output[1].attrs.arguments = PyStr("{\"max_results\": ")
    /\ \E v \in DOMAIN invocations :
          invocations[v].call_id = responses[1].output[2].attrs.call_id

IsPrefix(a, b) == Len(a) <= Len(b) /\ SubSeq(b, 1, Len(a)) = a

\* C12: the transcript of each endpoint call is a prefix of the transcript of the
\* next one, the transcript of the last endpoint call is a prefix of the returned
\* conversation_history, and every step leaves the working transcript a prefix of
\* its new value.
C12_TranscriptAppendOnly ==
    /\ [](\A k \in 1..(Len(requests) - 1) :
             IsPrefix(requests[k].input, requests[k + 1].input))
    /\ [](Returned => IsPrefix(Last(requests).input, result.conversation_history))
    /\ [][IsPrefix(input_list, input_list')]_vars

\* The run returned after two endpoint calls, the transcript having grown between
\* the calls and after the second.
C12_Witness ==
    /\ Returned
    /\ Len(requests) = 2
    /\ Len(requests[1].input) < Len(requests[2].input)
    /\ Len(requests[2].input) < Len(result.conversation_history)

\* The items of the list the caller passed (none when it passed None).
CallerItems == IF history_given THEN PriorHistory ELSE <<>>

\* C13: the transcript of the first endpoint call is the caller's history (or the
\* empty sequence) followed by the user item, and the caller's list holds the same
\* items in every state of the run as before it.
C13_FirstTranscriptAndCallerListKept ==
    /\ Len(requests) >= 1 =>
          requests[1].input
              = CallerItems \o <<[role |-> "user", content |-> "List my recent emails"]>>
    /\ conversation_history = CallerItems

\* The run was given a history and returned a transcript longer than history and
\* user message.
C13_Witness ==
    /\ Returned
    /\ history_given
    /\ Len(result.conversation_history) > Len(PriorHistory) + 1

\* C14: a run that returns gives back the response of the last endpoint call made,
\* that response's output_text (None when the response has no such attribute) and
\* the working transcript.
C14_ReturnsLastResponse ==
    Returned =>
        /\ Len(responses) = Len(requests)
        /\ result.response = responses[Len(requests)]
        /\ result.response.id = Len(requests)
        /\ result.output_text
              = (IF sdk_output_text THEN [str |-> "answer " \o ToString(Len(requests))]
                 ELSE None)
        /\ result.conversation_history = input_list

\* One function_call whose tool returned, then a response with one message and no
\* call: the run returned after two endpoint calls.
C14_Witness ==
    /\ Returned
    /\ sdk_output_text
    /\ Len(requests) = 2
    /\ CountCalls(responses[1].output) = 1
    /\ \E v \in DOMAIN invocations : invocations[v].outcome = "returned"
    /\ Len(responses[2].output) = 1
    /\ IsType(responses[2].output[1], "message")

\* C15: for max_iterations >= 1, the run raises only when an endpoint call failed;
\* a run that returns has raised nothing and left the loop because the last
\* response held no function_call or because max_iterations endpoint calls were
\* made; and when the max_iterations-th response holds function calls, the run,
\* once they are dispatched, returns without raising.
C15_BudgetExhaustionReturns ==
    max_iterations >= 1 =>
        /\ pc = "raised" => EndpointFailed
        /\ Returned =>
              /\ raised = ""
              /\ \/ CountCalls(Last(responses).output) = 0
                 \/ Len(requests) = max_iterations
        /\ (/\ Len(responses) = max_iterations
            /\ BatchOver(max_iterations)
            /\ CountCalls(Last(responses).output) >= 1) =>
              /\ raised = ""
              /\ pc \in {"loop", "done"}
              /\ pc = "loop" => ENABLED Return

\* A run with max_iterations = 2 returned although its second response held a call.
C15_Witness ==
    /\ Returned
    /\ max_iterations = 2
    /\ Len(requests) = 2
    /\ CountCalls(responses[2].output) >= 1

\* C16: the first endpoint call of a run is passed the instructions, every later
\* one None.
C16_InstructionsOnFirstCallOnly ==
    \A k \in DOMAIN requests :
        requests[k].instructions
            = (IF k = 1 THEN [str |-> "You are a helpful assistant"] ELSE None)

\* A second endpoint call was made and answered.
C16_Witness ==
    /\ Len(requests) = 2
    /\ pc = "convert"

Recognized == {"role", "content", "type", "call_id", "output", "name", "arguments"}

\* C17: every item the run has appended to the transcript, in the working
\* transcript and in the transcript of every endpoint call, has only fields of the
\* recognized set.
C17_OnlyRecognizedFields ==
    /\ \A i \in DOMAIN input_list :
          i > StartLen => DOMAIN input_list[i] \subseteq Recognized
    /\ \A k \in DOMAIN requests :
          \A i \in DOMAIN requests[k].input :
              i > StartLen => DOMAIN requests[k].input[i] \subseteq Recognized

\* A message item, which the endpoint returns with id and status, is in the
\* transcript of the second endpoint call.
C17_Witness ==
    /\ Len(requests) = 2
    /\ \E j \in DOMAIN responses[1].output :
          /\ IsType(responses[1].output[j], "message")
          /\ {"id", "status"} \subseteq DOMAIN responses[1].output[j].attrs
    /\ \E i \in DOMAIN requests[2].input :
          i > StartLen /\ IsItemType(requests[2].input[i], "message")

NotOutput(it) == ~IsItemType(it, "function_call_output")

NotReasoning(o) == ~IsType(o, "reasoning")

\* The response k has gone through the conversion loop.
Converted(k) == k < Len(responses) \/ (k = Len(responses) /\ pc # "convert")

\* The items appended to the transcript between the k-th endpoint call and the
\* next one (or now).
Segment(k) ==
    SubSeq(input_list, Len(requests[k].input) + 1,
           IF k < Len(requests) THEN Len(requests[k + 1].input) ELSE Len(input_list))

\* C18: once a response is converted, the items appended for it that are not
\* function_call_output items are, one for one and in order, the output items of
\* the response that are not of type reasoning, each with the values of the
\* item's attributes.
C18_OneItemPerNonReasoningOutput ==
    \A k \in DOMAIN responses :
        Converted(k) =>
            LET added == SelectSeq(Segment(k), NotOutput)
                kept == SelectSeq(responses[k].output, NotReasoning)
            IN /\ Len(added) = Len(kept)
               /\ \A i \in DOMAIN added :
                     /\ "type" \in DOMAIN added[i]
                     /\ \A f \in DOMAIN added[i] :
                           /\ f \in DOMAIN kept[i].attrs
                           /\ added[i][f] = kept[i].attrs[f]

\* A response with a reasoning item and an item without model_dump was converted.
C18_Witness ==
    /\ Len(responses) >= 1
    /\ Converted(1)
    /\ Len(responses[1].output) = 2
    /\ IsType(responses[1].output[1], "reasoning")
    /\ ~responses[1].output[2].dumpable

\* The function_call items of the responses with the call id c.
CallsWithId(c) ==
    {<<k, j>> \in (DOMAIN responses) \X (1..MaxItems + 1) :
        /\ j <= Len(responses[k].output)
        /\ IsFunctionCall(responses[k].output[j])
        /\ responses[k].output[j].attrs.call_id = c}

\* C19: for every tool invocation that returned, the transcript holds exactly one
\* function_call_output with the call's id and its output is the value the tool
\* returned; and a tool is entered with the keyword arguments max_results = 5
\* whether the call's arguments are the JSON text of that object or the object.
C19_ResultAppendedAndArgumentsDecoded ==
    \A v \in DOMAIN invocations :
        /\ invocations[v].outcome = "returned" =>
              /\ invocations[v].returned \in ToolResults
              /\ Cardinality(Positions(input_list, "function_call_output",
                                       invocations[v].call_id)) = 1
              /\ \A i \in Positions(input_list, "function_call_output",
                                    invocations[v].call_id) :
                    input_list[i].output = invocations[v].returned
        /\ \A kj \in CallsWithId(invocations[v].call_id) :
              (\/ CallAt(kj).arguments = [str |-> "{\"max_results\": 5}"]
               \/ CallAt(kj).arguments = [dict |-> [max_results |-> 5]]) =>
                  invocations[v].kwargs = [max_results |-> 5]

\* Two tools returned, one called with the JSON text and one with the object, and
\* a third wrapper returned its own value.
C19_Witness ==
    /\ \E v \in DOMAIN invocations :
          /\ invocations[v].outcome = "returned"
          /\ \E kj \in CallsWithId(invocations[v].call_id) :
                CallAt(kj).arguments = [dict |-> [max_results |-> 5]]
    /\ \E v \in DOMAIN invocations :
          /\ invocations[v].outcome = "returned"
          /\ invocations[v].name = "gmail_list_messages"
          /\ \E kj \in CallsWithId(invocations[v].call_id) :
                CallAt(kj).arguments = [str |-> "{\"max_results\": 5}"]
    /\ \E v \in DOMAIN invocations :
          invocations[v].returned = "{\"documents\": []}"

\* The tool invocations that have neither returned nor raised.
Running == {v \in DOMAIN invocations : invocations[v].outcome = "running"}

\* C20: at most one endpoint call is without its answer, and only while the run
\* waits for it; at most one tool invocation is running, it is the latest one, and
\* no endpoint call is in flight meanwhile; every invocation that has finished has
\* its function_call_output in the transcript.
C20_StrictlySequential ==
    /\ Len(requests) - Len(responses) \in {0, 1}
    /\ pc = "awaiting" => (Len(requests) = Len(responses) + 1 /\ Running = {})
    /\ (Len(requests) > Len(responses) /\ pc # "awaiting") => pc = "raised"
    /\ Cardinality(Running) <= 1
    /\ Running # {} =>
          /\ pc = "in_tool"
          /\ Running = {Len(invocations)}
          /\ Len(requests) = Len(responses)
    /\ \A v \in DOMAIN invocations :
          v \notin Running =>
              Cardinality(Positions(input_list, "function_call_output",
                                    invocations[v].call_id)) = 1

\* The second tool of a batch is running after the first one of the batch finished.
C20_Witness ==
    /\ pc = "in_tool"
    /\ Len(invocations) = 2
    /\ invocations[1].iteration = invocations[2].iteration
    /\ invocations[1].outcome = "raised"


\* C21: every endpoint call of a run is passed the declared descriptor list and the
\* same model name, and no step changes the descriptor list or function_map.
C21_ToolsAndModelSameOnEveryCall ==
    /\ [](\A k \in DOMAIN requests :
             /\ requests[k].tools = requests[1].tools
             /\ requests[k].tools = DOMAIN function_map \cup {"web_search"}
             /\ requests[k].model = requests[1].model)
    /\ [](module_globals = [tools |-> tools, function_map |-> function_map])
    /\ [][module_globals' = module_globals]_vars

\* The second endpoint call was made after a batch in which a tool returned and an
\* unknown function was answered.
C21_Witness ==
    /\ Len(requests) = 2
    /\ pc = "awaiting"
    /\ \E v \in DOMAIN invocations : invocations[v].outcome = "returned"
    /\ \E kj \in PassedCalls : ~Registered(CallAt(kj).name)


\* The invocations made for the call id c.
InvocationsOf(c) == {v \in DOMAIN invocations : invocations[v].call_id = c}

\* The invocations made between the k-th endpoint call and the next.
InvocationsIn(k) == {v \in DOMAIN invocations : invocations[v].iteration = k}

\* Arguments that decode to keyword arguments the wrappers of the model accept.
Accepted == {[str |-> "{\"max_results\": 5}"], [dict |-> [max_results |-> 5]]}

\* The positions of the function_call items of response k that name a registered
\* tool, and of those among them whose arguments the tool accepts.
RegisteredCalls(k) ==
    {j \in DOMAIN responses[k].output :
        /\ IsFunctionCall(responses[k].output[j])
        /\ responses[k].output[j].attrs.name \in DOMAIN function_map}

AcceptedCalls(k) ==
    {j \in RegisteredCalls(k) : responses[k].output[j].attrs.arguments \in Accepted}

\* C24 as stated: once the batch of a response is over, each function_call item of
\* the response that names a registered tool has caused exactly one invocation of
\* that tool, and the batch has caused no other invocation.
C24_OneInvocationPerRegisteredCall ==
    \A k \in DOMAIN responses :
        BatchOver(k) =>
            /\ \A j \in RegisteredCalls(k) :
                  Cardinality(InvocationsOf(responses[k].output[j].attrs.call_id)) = 1
            /\ Cardinality(InvocationsIn(k)) = Cardinality(RegisteredCalls(k))

\* C24, amended: the endpoint is called once per batch; once the batch of a
\* response is over, each function_call item that names a registered tool has
\* caused exactly one invocation of that tool when its arguments decode to keyword
\* arguments the tool accepts, also when the tool raised, and none when they do
\* not; the batch has caused no other invocation, so none for an item that is not
\* a function_call or names an unregistered tool; and every invocation is over
\* before the next endpoint call.
C24_OneInvocationPerAcceptedCall ==
    /\ Len(requests) <= Len(responses) + 1
    /\ \A k \in DOMAIN responses :
          BatchOver(k) =>
              /\ \A j \in AcceptedCalls(k) :
                    LET call == responses[k].output[j].attrs
                    IN /\ Cardinality(InvocationsOf(call.call_id)) = 1
                       /\ \A v \in InvocationsOf(call.call_id) :
                             /\ invocations[v].name = call.name
                             /\ invocations[v].iteration = k
                             /\ invocations[v].outcome \in {"returned", "raised"}
              /\ \A j \in RegisteredCalls(k) \ AcceptedCalls(k) :
                    InvocationsOf(responses[k].output[j].attrs.call_id) = {}
              /\ Cardinality(InvocationsIn(k)) = Cardinality(AcceptedCalls(k))

\* The second endpoint call was made after a batch of two calls of registered
\* tools: one whose arguments were rejected, one whose tool raised.
C24_Witness ==
    /\ Len(requests) = 2
    /\ Cardinality(RegisteredCalls(1)) = 2
    /\ Cardinality(AcceptedCalls(1)) = 1
    /\ \E v \in InvocationsIn(1) : invocations[v].outcome = "raised"

IsOutput(it) == IsItemType(it, "function_call_output")

\* C25: of the items appended for a response, those converted from its output
\* items come first, in the order the endpoint returned them, and the
\* function_call_output items come after all of them, in the order of their
\* function_call items in the response, one for every call once the batch is over.
C25_ConvertedItemsThenOutputsInOrder ==
    \A k \in DOMAIN responses :
        Converted(k) =>
            LET seg == Segment(k)
                added == SelectSeq(seg, NotOutput)
                outs == SelectSeq(seg, IsOutput)
                kept == SelectSeq(responses[k].output, NotReasoning)
                calls == SelectSeq(responses[k].output, IsFunctionCall)
            IN /\ seg = added \o outs
               /\ Len(added) = Len(kept)
               /\ \A i \in DOMAIN added :
                     /\ added[i].type = kept[i].attrs.type
                     /\ added[i].type = "function_call" =>
                           added[i].call_id = kept[i].attrs.call_id
               /\ Len(outs) <= Len(calls)
               /\ \A i \in DOMAIN outs : outs[i].call_id = calls[i].attrs.call_id
               /\ BatchOver(k) => Len(outs) = Len(calls)

\* The first response held a function_call followed by a message, the tool
\* returned, and the second endpoint call was made.
C25_Witness ==
    /\ Len(requests) = 2
    /\ Len(responses[1].output) = 2
    /\ IsFunctionCall(responses[1].output[1])
    /\ IsType(responses[1].output[2], "message")
    /\ \E v \in InvocationsIn(1) : invocations[v].outcome = "returned"

\* The positions of the function_call items of response k.
CallPositions(k) ==
    {j \in DOMAIN responses[k].output : IsFunctionCall(responses[k].output[j])}

\* C26: when the run returns after a last response that holds function calls (the
\* budget of max_iterations endpoint calls being used up), each of those calls has
\* exactly one function_call_output in the returned transcript, the accepted ones
\* among them have been passed to their tools, and no endpoint call of the run was
\* sent any of those outputs.
C26_LastBatchDispatchedButNotSent ==
    (Returned /\ CallPositions(Len(responses)) # {}) =>
        /\ Len(requests) = max_iterations
        /\ \A j \in CallPositions(Len(responses)) :
              LET c == Last(responses).output[j].attrs.call_id
              IN /\ Cardinality(Positions(result.conversation_history,
                                          "function_call_output", c)) = 1
                 /\ \A k \in DOMAIN requests :
                       Positions(requests[k].input, "function_call_output", c) = {}
        /\ \A j \in AcceptedCalls(Len(responses)) :
              \E v \in InvocationsIn(max_iterations) :
                  /\ invocations[v].call_id = Last(responses).output[j].attrs.call_id
                  /\ invocations[v].outcome \in {"returned", "raised"}

\* A run with a budget of two returned after its second response asked for a
\* tool, which returned.
C26_Witness ==
    /\ Returned
    /\ max_iterations = 2
    /\ Len(responses) = 2
    /\ CallPositions(2) # {}
    /\ \E v \in InvocationsIn(2) : invocations[v].outcome = "returned"

\* C27: a run started with max_iterations <= 0 makes no endpoint call, invokes no
\* tool and returns no result: the only step open to it after the loop test is the
\* return statement, which raises because response was never bound.
C27_NoIterationNoResult ==
    max_iterations <= 0 =>
        /\ requests = <<>>
        /\ responses = <<>>
        /\ invocations = <<>>
        /\ DOMAIN result = {}
        /\ pc \in {"start", "loop", "raised"}
        /\ pc = "loop" => (ENABLED ReturnUnbound /\ ~ENABLED SendRequest)
        /\ pc = "raised" => raised = "UnboundLocalError"

\* A run started with max_iterations = 0 and a history has failed at its return.
C27_Witness ==
    /\ max_iterations = 0
    /\ history_given
    /\ pc = "raised"
    /\ Len(input_list) = Len(PriorHistory) + 1

(***************************************************************************)
(* Properties of the service cache and of the authentication routines.     *)
(***************************************************************************)
\* The call in progress (or just over) went through get_cached_service.
ThroughCache == op.cached /\ op.service_type # ""

\* C22: the cache is lazy and monotone.  An entry exists only for a known service
\* whose routine has run, and it appears only in a step of a request for that
\* service that found none; a routine of the cache runs a second time only after
\* a run of it failed; a request that finds an entry returns that entry and runs
\* no routine; every normal return gives the entry of the cache; and no step
\* removes or replaces an entry.
C22_CacheLazyAndMonotone ==
    /\ [](\A s \in DOMAIN service_cache :
             /\ s \in ServiceTypes
             /\ service_cache[s].api = RoutineOf(s)
             /\ auth_runs[RoutineOf(s)] - auth_failures[RoutineOf(s)] = 1)
    /\ [](\A s \in ServiceTypes : auth_runs[RoutineOf(s)] <= auth_failures[RoutineOf(s)] + 1)
    /\ []((ThroughCache /\ op_result.outcome = "returned") =>
             /\ op.service_type \in DOMAIN service_cache
             /\ op_result.value = service_cache[op.service_type])
    /\ [][\A s \in DOMAIN service_cache' \ DOMAIN service_cache :
             /\ op.service_type = s
             /\ op.routine = RoutineOf(s)
             /\ op_result'.outcome = "returned"]_vars
    /\ [][(ppc = "get_cached_service" /\ op.service_type \in DOMAIN service_cache) =>
             /\ op_result'.outcome = "returned"
             /\ op_result'.value = service_cache[op.service_type]
             /\ UNCHANGED <<service_cache, auth_runs, auth_failures, token_file>>]_vars
    /\ [][\A s \in DOMAIN service_cache :
             s \in DOMAIN service_cache' /\ service_cache'[s] = service_cache[s]]_vars

\* The second request for a service found the entry the first one made and
\* returned it without entering a routine.
C22_Witness ==
    /\ ppc = "idle"
    /\ ncalls = 2
    /\ ThroughCache
    /\ op.routine = ""
    /\ op_result.outcome = "returned"
    /\ op_result.value = service_cache[op.service_type]
    /\ auth_runs[RoutineOf(op.service_type)] = 1


\* C23: every wrapper gets its service client through get_cached_service, so that,
\* whatever wrappers the process calls and however often, the authentication
\* routine of each service runs at most once (as long as no run of it fails).
C23_AuthenticationAtMostOncePerService ==
    \A r \in Routines : auth_failures[r] = 0 => auth_runs[r] <= 1


\* C28: a call of get_cached_service that raises leaves the cache as it was.  A
\* request for a type without a branch ends with KeyError and no entry; a request
\* whose authentication routine raises ends with that exception and no entry for
\* its type; and a later request for a known type whose routine has raised, as
\* long as the type has no entry, enters the routine again.
C28_FailedRequestLeavesCacheUnchanged ==
    /\ [](DOMAIN service_cache \subseteq ServiceTypes)
    /\ []((ThroughCache /\ op_result.outcome = "raised") =>
             /\ op.service_type \notin DOMAIN service_cache
             /\ op.service_type \notin ServiceTypes <=>
                    op_result.value = [exception |-> "KeyError"])
    /\ []((ThroughCache /\ ppc = "idle" /\ op.service_type \notin ServiceTypes) =>
             op_result.outcome = "raised")
    /\ [][op_result'.outcome = "raised" => service_cache' = service_cache]_vars
    /\ [][(/\ ppc = "get_cached_service"
           /\ op.service_type \in ServiceTypes
           /\ op.service_type \notin DOMAIN service_cache
           /\ auth_failures[RoutineOf(op.service_type)] >= 1) =>
             auth_runs'[RoutineOf(op.service_type)]
                 = auth_runs[RoutineOf(op.service_type)] + 1]_vars

\* The authentication of a service failed on the first request for it and ran
\* again, successfully, on the second.
C28_Witness ==
    /\ ncalls = 2
    /\ ThroughCache
    /\ op.service_type \in ServiceTypes
    /\ auth_failures[RoutineOf(op.service_type)] = 1
    /\ auth_runs[RoutineOf(op.service_type)] = 2
    /\ op_result.outcome = "returned"
    /\ op.service_type \in DOMAIN service_cache


\* The call in progress (or just over) has entered gmail.get_service.
InGmail == op.routine = "gmail.get_service"

\* The run of gmail.get_service has found the stored token unusable: the file did
\* not load, its credentials lack a required scope, or their refresh raised.
TokenRejected == trace.load \in {"unloadable", "scope"} \/ trace.refresh = "raised"

\* C29: in a run of gmail.get_service, (1) a token file that does not load or whose
\* credentials lack a required scope is found so by the load step; (2) once the
\* stored token is rejected (not loadable, scope lacking, refresh raised) the file
\* is gone until the run writes a new one, the credentials are dropped and the run
\* goes on to the interactive flow, which has run when get_service is over; (3) when
\* get_service returns after the flow returned credentials, the token file exists
\* and holds those credentials; (4) when the flow raises, get_service ends with
\* that exception, has written no token file and leaves the file as it was.
C29_GmailTokenReplacedThroughFlow ==
    InGmail =>
        /\ ppc \notin {"gmail_exists", "gmail_load"} =>
              /\ (trace.found.exists /\ ~trace.found.loadable) => trace.load = "unloadable"
              /\ (trace.found.loadable /\ trace.found.creds.scopes = "other") =>
                    trace.load = "scope"
        /\ TokenRejected =>
              /\ token_file.exists => trace.wrote
              /\ trace.flow = "" => (ppc \in {"gmail_valid", "gmail_flow"} /\ creds = None)
              /\ ppc = "idle" => trace.flow # ""
        /\ (ppc = "idle" /\ op_result.outcome = "returned" /\ trace.flow = "returned") =>
              /\ trace.wrote
              /\ token_file.exists
              /\ token_file.loadable
              /\ token_file.creds = creds
              /\ creds.id = auth_runs["gmail.get_service"]
        /\ trace.flow = "raised" =>
              /\ ppc = "idle"
              /\ op_result = [outcome |-> "raised", value |-> [exception |-> "FlowError"]]
              /\ ~trace.wrote
              /\ token_file = (IF TokenRejected THEN NoFile ELSE trace.found)
              /\ "gmail" \notin DOMAIN service_cache

\* get_service returned after the refresh of the stored credentials raised and the
\* interactive flow returned new ones, which the token file now holds.
C29_Witness ==
    /\ InGmail
    /\ ppc = "idle"
    /\ op_result.outcome = "returned"
    /\ trace.refresh = "raised"
    /\ trace.flow = "returned"
    /\ token_file = TokenFile(creds)

====
